---- MODULE Spec2Model ----
(***************************************************************************)
(* Federated-averaging experiment: graph construction by the FedAvg        *)
(* strategy (connectlib/strategies/fed_avg.py), the experiment driver      *)
(* (connectlib/experiment.py) and the caller's wait loop                   *)
(* (benchmark/camelyon/workflows.py).                                      *)
(***************************************************************************)
EXTENDS Integers, Sequences, FiniteSets, TLC

\* ---------------------------------------------------------------- bounds
MaxTrain == 3
MaxTest == 2
MaxRounds == 2

\* participant ids of the federation
Orgs == {"o1", "o2", "o3"}
\* numbers of layers a training callable may return in parameters_update
LayerCounts == {1, 3}
\* the participant that may act as aggregator
AggOrg == "o1"

\* Python's None for an optional state reference (reference keys start at 1)
NoRef == 0

\* number of shared states handed to one run of avg_shared_states
MaxShared == 2
\* values of an entry of parameters_update and of n_samples
Deltas == {3, 6}
SampleCounts == {20, 40}

VARIABLES
    train_ids,        \* train_data_nodes: participant id of each train node, in list order
    test_ids,         \* test_data_nodes: participant id of each test node, in list order
    aggregation_node, \* <<>> for None, <<id>> for an aggregation node
    num_rounds,       \* the driver's num_rounds argument
    pc,               \* position of the workflow
    rounds_done,      \* iterations of the driver's round loop completed
    local_states,     \* FedAvg._local_states : <<>> for None, <<list>> otherwise
    shared_states,    \* FedAvg._shared_states: <<>> for None, <<list>> otherwise
    train_tuples,     \* per train node: its queue of train operations
    test_tuples,      \* per test node: its queue of test operations
    agg_tuples,       \* the aggregation node's queue of aggregate operations
    next_key,         \* next fresh operation key
    calls,            \* strategy calls made by the driver, in order
    err,              \* exception that ended the run ("none" if none)
    client_log,       \* calls made on the backend client that change the backend
    submissions,      \* the ComputePlanSpec of each add_compute_plan call
    cp_status,        \* backend status of the submitted compute plan
    backend_error,    \* error met by the backend while executing the plan
    last_status,      \* status seen by the last get_compute_plan query
    outcome,          \* what the workflow handed to its caller
    remote_shared_states,  \* argument of a run of avg_shared_states on payloads
    remote_result,    \* <<>> before that run, <<what it returned or raised>> after
    state_writes      \* times the last strategy call assigned _local_states/_shared_states

vars == <<train_ids, test_ids, aggregation_node, num_rounds, pc, rounds_done,
          local_states, shared_states, train_tuples, test_tuples, agg_tuples,
          next_key, calls, err, client_log, submissions, cp_status, backend_error,
          last_status, outcome, remote_shared_states, remote_result, state_writes>>

remote == <<remote_shared_states, remote_result>>
config == <<train_ids, test_ids, aggregation_node, num_rounds>>
graph == <<local_states, shared_states, train_tuples, test_tuples, agg_tuples, next_key,
           state_writes>>
backend == <<cp_status, backend_error>>

\* ------------------------------------------------------------- helpers
SeqsUpTo(S, n) == UNION {[1..k -> S] : k \in 0..n}

NumTrain == Len(train_ids)
NumTest == Len(test_ids)

\* the strategy-and-nodes part of the state, threaded through one handler
World ==
    [local |-> local_states, shared |-> shared_states,
     train |-> train_tuples, test |-> test_tuples, agg |-> agg_tuples,
     key |-> next_key, err |-> "none", ret |-> NoRef, writes |-> 0]

Raise(w, e) == [w EXCEPT !.err = e]

OpsOf(tt) == UNION {{tt[i][k] : k \in 1..Len(tt[i])} : i \in DOMAIN tt}

\* the train node (list position) whose operation produced the reference `ref`
ProducerNode(tt, ref) ==
    LET ps == {i \in DOMAIN tt : \E k \in 1..Len(tt[i]) : tt[i][k].key = ref}
    IN IF ps = {} THEN 0 ELSE CHOOSE i \in ps : TRUE

\* ------------------------------------------------ node abstractions
\* TrainDataOrganization.update_states: append a train operation, return the
\* references of its outputs (local state and shared state carry the op key)
TrainUpdateStates(w, i, in_shared, in_local, round) ==
    IF in_local # NoRef /\ ProducerNode(w.train, in_local) # i
    THEN Raise(w, "ScopeViolation")
    ELSE [w EXCEPT
            !.train[i] = Append(@, [kind |-> "train", node |-> i, org |-> train_ids[i],
                                    round |-> round, key |-> w.key,
                                    in_local |-> in_local,
                                    in_shared |-> IF in_shared = NoRef THEN <<>>
                                                  ELSE <<in_shared>>]),
            !.key = @ + 1,
            !.ret = w.key]

\* AggregationOrganization.update_states: append an aggregate operation over the
\* given payload references, return the reference of the aggregated state
AggUpdateStates(w, payloads, round) ==
    IF payloads = <<>>
    THEN Raise(w, "EmptyAggregationInput")
    ELSE [w EXCEPT
            !.agg = Append(@, [kind |-> "aggregate", node |-> 0,
                               org |-> aggregation_node[1],
                               round |-> round, key |-> w.key,
                               in_local |-> NoRef, in_shared |-> payloads]),
            !.key = @ + 1,
            !.ret = w.key]

\* TestDataOrganization.update_states: append a test operation on a local state
TestUpdateStates(w, j, traintuple_id, round) ==
    LET p == ProducerNode(w.train, traintuple_id)
    IN IF p = 0 \/ train_ids[p] # test_ids[j]
       THEN Raise(w, "ScopeViolation")
       ELSE [w EXCEPT
               !.test[j] = Append(@, [kind |-> "test", node |-> j, org |-> test_ids[j],
                                      round |-> round, key |-> w.key,
                                      in_local |-> traintuple_id, in_shared |-> <<>>]),
               !.key = @ + 1]

\* @remote: calling avg_shared_states at construction time only describes the
\* operation; what is kept is the list of shared-state references it will average
RemoteAvgSharedStates(shared) == IF shared = <<>> THEN <<>> ELSE shared[1]

\* -------------------------------------------------- FedAvg strategy
\* mutant: every train node is given the local state of the first train node
LocalStateOfFirstNode(w, i) == IF w.local # <<>> THEN w.local[1][1] ELSE NoRef

\* the local_state argument of update_states for train node i
LocalStateArgument(w, i) == IF w.local # <<>> THEN w.local[1][i] ELSE NoRef

\* the loop of _perform_local_updates from train node i on; nl, ns are
\* next_local_states and next_shared_states
RECURSIVE LocalUpdatesLoop(_, _, _, _, _, _)
LocalUpdatesLoop(w, i, current_aggregation, round, nl, ns) ==
    IF i > NumTrain
    THEN [w EXCEPT !.local = <<nl>>, !.shared = <<ns>>, !.writes = @ + 1]
    ELSE IF w.local # <<>> /\ i > Len(w.local[1])
    THEN Raise(w, "IndexError")
    ELSE LET w1 == TrainUpdateStates(w, i, current_aggregation,
                                     LocalStateArgument(w, i), round)
         IN IF w1.err # "none" THEN w1
            ELSE LocalUpdatesLoop(w1, i + 1, current_aggregation, round,
                                  Append(nl, w1.ret), Append(ns, w1.ret))

\* mutant: the pass forgets to store the new local states once some are held
PerformLocalUpdatesKeepingLocalStates(w, current_aggregation, round) ==
    LET r == LocalUpdatesLoop(w, 1, current_aggregation, round, <<>>, <<>>)
    IN IF w.local = <<>> \/ r.err # "none" THEN r ELSE [r EXCEPT !.local = w.local]

\* mutant: the pass does not store the new shared states
PerformLocalUpdatesLosingSharedStates(w, current_aggregation, round) ==
    [LocalUpdatesLoop(w, 1, current_aggregation, round, <<>>, <<>>) EXCEPT !.shared = <<>>]

\* mutant: the pass stores the new states in the reverse of the node order
PerformLocalUpdatesReversed(w, current_aggregation, round) ==
    LET r == LocalUpdatesLoop(w, 1, current_aggregation, round, <<>>, <<>>)
        Reversed(q) == [k \in 1..Len(q) |-> q[Len(q) + 1 - k]]
    IN IF r.err # "none" THEN r
       ELSE [r EXCEPT !.local = <<Reversed(r.local[1])>>,
                      !.shared = <<Reversed(r.shared[1])>>]

PerformLocalUpdates(w, current_aggregation, round) ==
    LocalUpdatesLoop(w, 1, current_aggregation, round, <<>>, <<>>)

\* mutant: the initialisation pass runs in every round
ColdStartEveryRound(w, round_idx) == PerformLocalUpdates(w, NoRef, 0)

\* mutant: the initialisation branch without its two assertions
ColdStartUnguarded(w, round_idx) ==
    IF round_idx # 1 THEN w ELSE PerformLocalUpdates(w, NoRef, 0)

\* the initialisation branch of perform_round (round_idx == 1)
ColdStart(w, round_idx) ==
    IF round_idx # 1 THEN w
    ELSE IF w.local # <<>> \/ w.shared # <<>> THEN Raise(w, "AssertionError")
    ELSE PerformLocalUpdates(w, NoRef, 0)

\* mutant: the aggregate is given the shared states the round's own train
\* operations are about to produce
AggregateOfComingSharedStates(w, round_idx) ==
    AggUpdateStates(w, [k \in 1..Len(RemoteAvgSharedStates(w.shared)) |-> w.key + k],
                    round_idx)

\* mutant: the shared state of the last train node is not aggregated
AggregateButLastSharedState(w, round_idx) ==
    AggUpdateStates(w, [k \in 1..(Len(RemoteAvgSharedStates(w.shared)) - 1) |->
                          RemoteAvgSharedStates(w.shared)[k]], round_idx)

\* the aggregation step of perform_round
Aggregate(w, round_idx) ==
    AggUpdateStates(w, RemoteAvgSharedStates(w.shared), round_idx)

\* mutant: the round has no aggregation step
PerformRoundSkippingAggregation(w, round_idx) ==
    IF aggregation_node = <<>> THEN Raise(w, "ValueError")
    ELSE LET w1 == ColdStart(w, round_idx)
         IN IF w1.err # "none" THEN w1
            ELSE PerformLocalUpdates(w1, <<>>, round_idx)

\* mutant: the local updates of a round are tagged with the round before
PerformRoundTaggingPreviousRound(w, round_idx) ==
    IF aggregation_node = <<>> THEN Raise(w, "ValueError")
    ELSE LET w1 == ColdStart(w, round_idx)
         IN IF w1.err # "none" THEN w1
            ELSE LET w2 == Aggregate(w1, round_idx)
                 IN IF w2.err # "none" THEN w2
                    ELSE PerformLocalUpdates(w2, w2.ret, round_idx - 1)

\* mutant: the aggregated state is not handed to the local updates
PerformRoundWithoutBroadcast(w, round_idx) ==
    IF aggregation_node = <<>> THEN Raise(w, "ValueError")
    ELSE LET w1 == ColdStart(w, round_idx)
         IN IF w1.err # "none" THEN w1
            ELSE LET w2 == Aggregate(w1, round_idx)
                 IN IF w2.err # "none" THEN w2
                    ELSE PerformLocalUpdates(w2, NoRef, round_idx)

\* mutant: the aggregation node is looked at only when it is first used
PerformRoundCheckingLate(w, round_idx) ==
    LET w1 == ColdStart(w, round_idx)
    IN IF w1.err # "none" THEN w1
       ELSE IF aggregation_node = <<>> THEN Raise(w1, "ValueError")
       ELSE LET w2 == Aggregate(w1, round_idx)
            IN IF w2.err # "none" THEN w2
               ELSE PerformLocalUpdates(w2, w2.ret, round_idx)

PerformRound(w, round_idx) ==
    IF aggregation_node = <<>> THEN Raise(w, "ValueError")
    ELSE LET w1 == ColdStart(w, round_idx)
         IN IF w1.err # "none" THEN w1
            ELSE LET w2 == Aggregate(w1, round_idx)
                 IN IF w2.err # "none" THEN w2
                    ELSE PerformLocalUpdates(w2, w2.ret, round_idx)

\* mutant: the participant-id test of the comprehension is lost
MatchAnyTrainOrganization(j) == 1..NumTrain

\* mutant: a participant id held by several train organizations matches none
MatchSingleTrainOrganization(j) ==
    IF Cardinality({i \in 1..NumTrain : train_ids[i] = test_ids[j]}) > 1 THEN {}
    ELSE {i \in 1..NumTrain : train_ids[i] = test_ids[j]}

\* matching_train_organizations of predict, as list positions in list order
MatchingTrainOrganizations(j) == {i \in 1..NumTrain : train_ids[i] = test_ids[j]}

\* mutant: the last matching train organization is taken instead of the first
LastMatchingIndex(j) ==
    CHOOSE i \in MatchingTrainOrganizations(j) :
        \A k \in MatchingTrainOrganizations(j) : i >= k

\* matching_train_organizations[0] and its index in the train list
OrganizationIndex(j) ==
    CHOOSE i \in MatchingTrainOrganizations(j) :
        \A k \in MatchingTrainOrganizations(j) : i <= k

\* the loop of predict from test node j on
RECURSIVE PredictLoop(_, _, _)
PredictLoop(w, j, round_idx) ==
    IF j > NumTest THEN w
    ELSE IF MatchingTrainOrganizations(j) = {} THEN Raise(w, "NoMatchingTrainNode")
    ELSE IF w.local = <<>> THEN Raise(w, "AssertionError")
    ELSE LET w1 == TestUpdateStates(w, j, w.local[1][OrganizationIndex(j)], round_idx)
         IN IF w1.err # "none" THEN w1 ELSE PredictLoop(w1, j + 1, round_idx)

\* mutant: the loop over the test nodes is run a second time
PredictTwice(w, round_idx) ==
    IF PredictLoop(w, 1, round_idx).err # "none" THEN PredictLoop(w, 1, round_idx)
    ELSE PredictLoop(PredictLoop(w, 1, round_idx), 1, round_idx)

\* mutant: a predict call that fails takes back the test operations it registered
PredictAllOrNothing(w, round_idx) ==
    IF PredictLoop(w, 1, round_idx).err = "none" THEN PredictLoop(w, 1, round_idx)
    ELSE Raise(w, PredictLoop(w, 1, round_idx).err)

\* mutant: predict resets the strategy state once the test operations are registered
PredictForgettingState(w, round_idx) ==
    [PredictLoop(w, 1, round_idx) EXCEPT !.local = <<>>, !.shared = <<>>]

Predict(w, round_idx) == PredictLoop(w, 1, round_idx)

\* mutant: the empty input is not looked for
ValidateShapesOnly(lens) ==
    IF \E k \in 1..Len(lens) : lens[k] # lens[1] THEN "ShapeMismatch" ELSE "ok"

\* mutant: the numbers of layers are not compared
ValidateNonEmptyOnly(lens) == IF Len(lens) = 0 THEN "EmptyInput" ELSE "ok"

\* validation done by avg_shared_states when the backend runs it on the
\* materialised shared states; lens[k] is len(shared_states[k].parameters_update)
AvgSharedStatesValidate(lens) ==
    IF Len(lens) = 0 THEN "EmptyInput"
    ELSE IF \E k \in 1..Len(lens) : lens[k] # lens[1] THEN "ShapeMismatch"
    ELSE "ok"

\* the FedAvgSharedState records a training callable may return
SharedStates ==
    [parameters_update : UNION {[1..l -> Deltas] : l \in LayerCounts},
     n_samples : SampleCounts]

\* arithmetic of the average: the values are kept as exact fractions num/den
\* (den > 0) in lowest terms
RECURSIVE GCD(_, _)
GCD(a, b) == IF b = 0 THEN a ELSE GCD(b, a % b)

Rat(num, den) == [num |-> num \div GCD(num, den), den |-> den \div GCD(num, den)]

RatAdd(x, y) == Rat(x.num * y.den + y.num * x.den, x.den * y.den)

RatScale(v, x) == Rat(v * x.num, x.den)

\* np.sum(states, axis=0) at one position, from term k on
RECURSIVE RatSum(_, _)
RatSum(terms, k) ==
    IF k > Len(terms) THEN Rat(0, 1) ELSE RatAdd(terms[k], RatSum(terms, k + 1))

\* sum([state.n_samples for state in shared_states]), from state k on
RECURSIVE SumSamples(_, _)
SumSamples(states, k) ==
    IF k > Len(states) THEN 0
    ELSE states[k].n_samples + SumSamples(states, k + 1)

NAllSamples(states) == SumSamples(states, 1)

\* mutant: every state weighs the same (a plain mean)
PlainMeanWeight(states, k) == Rat(1, Len(states))

\* state.n_samples / n_all_samples
Weight(states, k) ==
    Rat(states[k].n_samples, NAllSamples(states))

\* mutant: the last layer is left out of the average
LayerIndicesButLast(states) == 1..(Len(states[1].parameters_update) - 1)

\* range(len(shared_states[0].parameters_update))
LayerIndices(states) == 1..Len(states[1].parameters_update)

\* the averaging part of avg_shared_states: the total, then for each layer the
\* sum of the weighted updates; indexing a missing state or layer raises
AveragedStates(states) ==
    IF \/ states = <<>>
       \/ \E k \in 1..Len(states) :
             Len(states[k].parameters_update)
             < Len(states[1].parameters_update)
    THEN [err |-> "IndexError", n_all_samples |-> <<NAllSamples(states)>>,
          ret |-> <<>>]
    ELSE [err |-> "none", n_all_samples |-> <<NAllSamples(states)>>,
          ret |-> << [avg_parameters_update |->
                        [idx \in LayerIndices(states) |->
                           RatSum([k \in 1..Len(states) |->
                                     RatScale(states[k].parameters_update[idx],
                                              Weight(states, k))], 1)]] >>]

\* the input checks of avg_shared_states on the materialised shared states
CheckSharedStates(states) ==
    AvgSharedStatesValidate(
        [k \in 1..Len(states) |-> Len(states[k].parameters_update)])

\* avg_shared_states run on payloads: what it raised (err), the total it
\* computed if it got that far, and the FedAvgAveragedState it returned if any
AvgSharedStates(states) ==
    IF CheckSharedStates(states) # "ok"
    THEN [err |-> CheckSharedStates(states), n_all_samples |-> <<>>, ret |-> <<>>]
    ELSE AveragedStates(states)

\* ------------------------------------------------- experiment driver
\* round index handed to the k-th perform_round call (rounds start at 1)
DriverRoundIdx == rounds_done + 1

\* mutant: the queues are joined from the last node to the first
RECURSIVE ConcatBackwards(_, _)
ConcatBackwards(queues, i) ==
    IF i > Len(queues) THEN <<>> ELSE ConcatBackwards(queues, i + 1) \o queues[i]

RECURSIVE Concat(_, _)
Concat(queues, i) ==
    IF i > Len(queues) THEN <<>> ELSE queues[i] \o Concat(queues, i + 1)

\* mutant: the id of the aggregation node is left out
AuthorizedIdsOfTrainNodes == {train_ids[i] : i \in 1..NumTrain}

\* authorized_ids of the permissions built by execute_experiment
AuthorizedIds == {aggregation_node[1]} \cup {train_ids[i] : i \in 1..NumTrain}

\* the register_operations calls, in the order execute_experiment makes them
Registrations ==
    [i \in 1..NumTrain |-> [call |-> "register_operations", kind |-> "train", node |-> i,
                            authorized_ids |-> AuthorizedIds]]
    \o [j \in 1..NumTest |-> [call |-> "register_operations", kind |-> "test", node |-> j,
                              authorized_ids |-> AuthorizedIds]]
    \o << [call |-> "register_operations", kind |-> "aggregation", node |-> 0,
           authorized_ids |-> AuthorizedIds] >>

\* the add_compute_plan call
AddComputePlan ==
    [call |-> "add_compute_plan", kind |-> "plan", node |-> 0,
     authorized_ids |-> AuthorizedIds]

\* mutant: composite_traintuples is overwritten by each node instead of extended
ComputePlanSpecLastNodeOnly ==
    [composite_traintuples |-> IF NumTrain = 0 THEN <<>> ELSE train_tuples[NumTrain],
     aggregatetuples |-> agg_tuples,
     testtuples |-> Concat(test_tuples, 1)]

\* the ComputePlanSpec handed to client.add_compute_plan
ComputePlanSpec ==
    [composite_traintuples |-> Concat(train_tuples, 1),
     aggregatetuples |-> agg_tuples,
     testtuples |-> Concat(test_tuples, 1)]

TerminalStatuses == {"done", "failed", "canceled"}

Init ==
    /\ train_ids \in SeqsUpTo(Orgs, MaxTrain)
    /\ test_ids \in SeqsUpTo(Orgs, MaxTest)
    /\ aggregation_node \in {<<>>, <<AggOrg>>}
    /\ num_rounds \in 0..MaxRounds
    /\ pc = "rounds"
    /\ rounds_done = 0
    /\ local_states = <<>>
    /\ shared_states = <<>>
    /\ train_tuples = [i \in 1..Len(train_ids) |-> <<>>]
    /\ test_tuples = [j \in 1..Len(test_ids) |-> <<>>]
    /\ agg_tuples = <<>>
    /\ next_key = 1
    /\ state_writes = 0
    /\ calls = <<>>
    /\ err = "none"
    /\ client_log = <<>>
    /\ submissions = <<>>
    /\ cp_status = "none"
    /\ backend_error = "none"
    /\ last_status = "none"
    /\ outcome = "none"
    /\ remote_shared_states = <<>>
    /\ remote_result = <<>>

\* mutant: an exception of the strategy call is swallowed and the driver goes on
CommitSwallowingErrors(w, next) ==
    /\ local_states' = w.local
    /\ shared_states' = w.shared
    /\ train_tuples' = w.train
    /\ test_tuples' = w.test
    /\ agg_tuples' = w.agg
    /\ next_key' = w.key
    /\ state_writes' = w.writes
    /\ err' = w.err
    /\ pc' = next
    /\ outcome' = outcome

\* a strategy call returned w: store the strategy and node state it left, and
\* go on to `next` unless it raised
Commit(w, next) ==
    /\ local_states' = w.local
    /\ shared_states' = w.shared
    /\ train_tuples' = w.train
    /\ test_tuples' = w.test
    /\ agg_tuples' = w.agg
    /\ next_key' = w.key
    /\ state_writes' = w.writes
    /\ err' = w.err
    /\ pc' = IF w.err = "none" THEN next ELSE "aborted"
    /\ outcome' = IF w.err = "none" THEN outcome ELSE "raised"

\* mutant: every round registers the train operations with the client at once
DriverRoundRegistering ==
    /\ pc = "rounds"
    /\ rounds_done < num_rounds
    /\ calls' = Append(calls, [op |-> "perform_round", round_idx |-> DriverRoundIdx])
    /\ Commit(PerformRound(World, DriverRoundIdx), "rounds")
    /\ rounds_done' = rounds_done + 1
    /\ client_log' = client_log
                      \o [i \in 1..NumTrain |->
                            [call |-> "register_operations", kind |-> "train", node |-> i,
                             authorized_ids |-> {train_ids[k] : k \in 1..NumTrain}]]
    /\ UNCHANGED <<remote, config, submissions, backend, last_status>>

\* one iteration of the loop over range(num_rounds)
DriverRound ==
    /\ pc = "rounds"
    /\ rounds_done < num_rounds
    /\ calls' = Append(calls, [op |-> "perform_round", round_idx |-> DriverRoundIdx])
    /\ Commit(PerformRound(World, DriverRoundIdx), "rounds")
    /\ rounds_done' = rounds_done + 1
    /\ UNCHANGED <<remote, config, client_log, submissions, backend, last_status>>

\* mutant: predict is called without waiting for the end of the round loop
DriverPredictEarly ==
    /\ pc = "rounds"
    /\ calls' = Append(calls, [op |-> "predict", round_idx |-> num_rounds])
    /\ Commit(Predict(World, num_rounds), "register")
    /\ UNCHANGED <<remote, config, rounds_done, client_log, submissions, backend, last_status>>

\* the loop is over: strategy.predict
DriverPredict ==
    /\ pc = "rounds"
    /\ rounds_done >= num_rounds
    /\ calls' = Append(calls, [op |-> "predict", round_idx |-> num_rounds])
    /\ Commit(Predict(World, num_rounds), "register")
    /\ UNCHANGED <<remote, config, rounds_done, client_log, submissions, backend, last_status>>

\* permissions, register_operations on every node, add_compute_plan, return
DriverSubmit ==
    /\ pc = "register"
    /\ IF aggregation_node = <<>>
       THEN /\ err' = "AttributeError"
            /\ pc' = "aborted"
            /\ outcome' = "raised"
            /\ UNCHANGED <<client_log, submissions, cp_status>>
       ELSE /\ client_log' = client_log \o Registrations \o <<AddComputePlan>>
            /\ submissions' = Append(submissions, ComputePlanSpec)
            /\ cp_status' = "doing"
            /\ pc' = "poll"
            /\ UNCHANGED <<err, outcome>>
    /\ UNCHANGED <<remote, config, graph, rounds_done, calls, backend_error, last_status>>

\* ---------------------------------------------------------- backend
\* the backend runs the plan to a terminal status; the aggregate operations run
\* avg_shared_states on the shared states the training callable produced
\* result of the checks of avg_shared_states in the plan's first aggregate
\* operation, when train node i returned lens[i] layers
AggregateCheck(lens) ==
    LET ins == submissions[1].aggregatetuples[1].in_shared
    IN AvgSharedStatesValidate(
         [k \in 1..Len(ins) |-> lens[ProducerNode(train_tuples, ins[k])]])

BackendStep ==
    /\ cp_status = "doing"
    /\ \/ /\ agg_tuples # <<>>
          /\ \E lens \in [1..NumTrain -> LayerCounts] :
                /\ AggregateCheck(lens) # "ok"
                /\ backend_error' = AggregateCheck(lens)
          /\ cp_status' = "failed"
       \/ /\ IF agg_tuples = <<>> THEN TRUE
             ELSE \E lens \in [1..NumTrain -> LayerCounts] : AggregateCheck(lens) = "ok"
          /\ \E verdict \in TerminalStatuses :
                /\ cp_status' = verdict
                /\ backend_error' = IF verdict = "failed" THEN "ExecutionFailed"
                                    ELSE "none"
    /\ UNCHANGED <<remote, config, graph, pc, rounds_done, calls, err, client_log,
                   submissions, last_status, outcome>>

\* ------------------------------------------------- caller's wait loop
\* mutant: the loop is left after the first query whatever the status
PollQueryNoWait ==
    /\ pc = "poll"
    /\ last_status' = cp_status
    /\ pc' = "fetch"
    /\ UNCHANGED <<remote, config, graph, rounds_done, calls, err, client_log, submissions,
                   backend, outcome>>

\* one get_compute_plan(...).status test of the while loop
PollQuery ==
    /\ pc = "poll"
    /\ last_status' = cp_status
    /\ pc' = IF cp_status \in TerminalStatuses THEN "fetch" ELSE "sleep"
    /\ UNCHANGED <<remote, config, graph, rounds_done, calls, err, client_log, submissions,
                   backend, outcome>>

\* time.sleep(1)
Sleep ==
    /\ pc = "sleep"
    /\ pc' = "poll"
    /\ UNCHANGED <<remote, config, graph, rounds_done, calls, err, client_log, submissions,
                   backend, last_status, outcome>>

\* get_performances and return
Fetch ==
    /\ pc = "fetch"
    /\ outcome' = "performances"
    /\ pc' = "returned"
    /\ UNCHANGED <<remote, config, graph, rounds_done, calls, err, client_log, submissions,
                   backend, last_status>>

Next ==
    \/ DriverRound
    \/ DriverPredict
    \/ DriverSubmit
    \/ BackendStep
    \/ PollQuery
    \/ Sleep
    \/ Fetch

Spec == Init /\ [][Next]_vars

\* the workflow is a sequential program: once the graph is built it keeps taking
\* its next step (nothing is assumed of the backend)
FairSpec ==
    Spec /\ WF_vars(DriverSubmit) /\ WF_vars(PollQuery) /\ WF_vars(Sleep) /\ WF_vars(Fetch)

\* ------------------------- perform_round called with any round index
\* a caller other than execute_experiment: a fresh strategy and fresh nodes, on
\* which perform_round is called up to MaxCalls times, each time with the same
\* nodes and a round index of the caller's choice; a call that raises ends it
MaxCalls == 3

DirectCallInit ==
    /\ train_ids \in SeqsUpTo(Orgs, MaxTrain)
    /\ test_ids = <<>>
    /\ aggregation_node \in {<<>>, <<AggOrg>>}
    /\ num_rounds = 0
    /\ pc = "rounds"
    /\ rounds_done = 0
    /\ local_states = <<>>
    /\ shared_states = <<>>
    /\ train_tuples = [i \in 1..Len(train_ids) |-> <<>>]
    /\ test_tuples = <<>>
    /\ agg_tuples = <<>>
    /\ next_key = 1
    /\ state_writes = 0
    /\ calls = <<>>
    /\ err = "none"
    /\ client_log = <<>>
    /\ submissions = <<>>
    /\ cp_status = "none"
    /\ backend_error = "none"
    /\ last_status = "none"
    /\ outcome = "none"
    /\ remote_shared_states = <<>>
    /\ remote_result = <<>>

CallPerformRound ==
    /\ pc = "rounds"
    /\ Len(calls) < MaxCalls
    /\ \E round_idx \in 1..MaxRounds :
          /\ calls' = Append(calls, [op |-> "perform_round", round_idx |-> round_idx])
          /\ Commit(PerformRound(World, round_idx), "rounds")
    /\ rounds_done' = rounds_done + 1
    /\ UNCHANGED <<remote, config, client_log, submissions, backend, last_status>>

DirectCallSpec == DirectCallInit /\ [][CallPerformRound]_vars

\* ------------------------ avg_shared_states as the backend runs it
\* a run of the remote function on some shared states, apart from any experiment
RemoteInit ==
    /\ train_ids = <<>>
    /\ test_ids = <<>>
    /\ aggregation_node = <<AggOrg>>
    /\ num_rounds = 0
    /\ pc = "remote"
    /\ rounds_done = 0
    /\ local_states = <<>>
    /\ shared_states = <<>>
    /\ train_tuples = <<>>
    /\ test_tuples = <<>>
    /\ agg_tuples = <<>>
    /\ next_key = 1
    /\ state_writes = 0
    /\ calls = <<>>
    /\ err = "none"
    /\ client_log = <<>>
    /\ submissions = <<>>
    /\ cp_status = "none"
    /\ backend_error = "none"
    /\ last_status = "none"
    /\ outcome = "none"
    /\ remote_shared_states \in SeqsUpTo(SharedStates, MaxShared)
    /\ remote_result = <<>>

RunAvgSharedStates ==
    /\ pc = "remote"
    /\ remote_result = <<>>
    /\ remote_result' = <<AvgSharedStates(remote_shared_states)>>
    /\ UNCHANGED <<remote_shared_states, config, graph, pc, rounds_done, calls, err,
                   client_log, submissions, backend, last_status, outcome>>

RemoteSpec == RemoteInit /\ [][RunAvgSharedStates]_vars

\* ===================================================== properties
Last(q) == q[Len(q)]
CallsOf(op) == {k \in 1..Len(calls) : calls[k].op = op}
\* predict has returned normally
PredictReturned == pc \in {"register", "poll", "sleep", "fetch", "returned"}
                   \/ err = "AttributeError"
\* errors raised by graph construction
ConstructionErrors == {"ScopeViolation", "EmptyAggregationInput", "NoMatchingTrainNode",
                       "AssertionError", "ValueError", "IndexError"}
TrainOpsAtRound(r) == {o \in OpsOf(train_tuples) : o.round = r}
AggOpsAtRound(r) == {k \in 1..Len(agg_tuples) : agg_tuples[k].round = r}
\* test nodes whose participant id is the id of no train node
Unmatched == {j \in 1..NumTest : \A i \in 1..NumTrain : train_ids[i] # test_ids[j]}
\* first train node of the list with the participant id of test node j
FirstTrainNodeOf(j) ==
    CHOOSE i \in 1..NumTrain :
        /\ train_ids[i] = test_ids[j]
        /\ \A k \in 1..(i - 1) : train_ids[k] # test_ids[j]

C2_SingleSubmission ==
    /\ Len(submissions) <= 1
    /\ Len(submissions) = Cardinality({k \in 1..Len(client_log) :
                                         client_log[k].call = "add_compute_plan"})
    /\ \A k \in 1..Len(client_log) :
          client_log[k].call = "add_compute_plan" => k = Len(client_log)
    /\ \A k \in 1..Len(submissions) :
          /\ {submissions[k].composite_traintuples[n] :
                 n \in 1..Len(submissions[k].composite_traintuples)}
             = OpsOf(train_tuples)
          /\ Len(submissions[k].composite_traintuples) = Cardinality(OpsOf(train_tuples))
          /\ {submissions[k].testtuples[n] : n \in 1..Len(submissions[k].testtuples)}
             = OpsOf(test_tuples)
          /\ Len(submissions[k].testtuples) = Cardinality(OpsOf(test_tuples))
          /\ submissions[k].aggregatetuples = agg_tuples
    /\ pc \in {"poll", "sleep", "fetch", "returned"} => Len(submissions) = 1
    /\ pc \in {"rounds", "register", "aborted"} => client_log = <<>> /\ submissions = <<>>

C2_Witness ==
    /\ pc = "returned"
    /\ Len(submissions) = 1
    /\ Len(submissions[1].composite_traintuples) = 6
    /\ Len(submissions[1].testtuples) = 2
    /\ Len(submissions[1].aggregatetuples) = 2

C5_PollLoopEscapes == (pc = "poll") ~> (pc \notin {"poll", "sleep"})

\* C6 as stated: a plan reported failed or canceled gives the caller an outcome
\* other than the one a plan reported done gives, and a run never submits twice.
C6_FailureSurfaced ==
    /\ Len(submissions) <= 1
    /\ pc = "returned" => (outcome = "performances" <=> last_status = "done")

\* C7: once the first perform_round call has completed, every train node's queue
\* starts with its cold-start operation (round 0, no shared-state and no
\* local-state input), that is the node's only train operation without a
\* shared-state input, the strategy holds one local-state reference per train
\* node, and every aggregate operation was registered after the cold-start
\* operation of every train node.
C7_ColdStartFirst ==
    /\ (rounds_done >= 1 /\ (err = "none" \/ Len(calls) > 1))
       => /\ local_states # <<>>
          /\ Len(local_states[1]) = NumTrain
          /\ \A i \in 1..NumTrain :
                /\ train_tuples[i] # <<>>
                /\ train_tuples[i][1].in_shared = <<>>
                /\ train_tuples[i][1].in_local = NoRef
                /\ train_tuples[i][1].round = 0
                /\ {k \in 1..Len(train_tuples[i]) : train_tuples[i][k].in_shared = <<>>}
                   = {1}
    /\ \A a \in 1..Len(agg_tuples) : \A i \in 1..NumTrain :
          /\ train_tuples[i] # <<>>
          /\ train_tuples[i][1].in_shared = <<>>
          /\ train_tuples[i][1].key < agg_tuples[a].key

C7_Witness ==
    /\ rounds_done = 1
    /\ err = "none"
    /\ NumTrain = 3
    /\ Len(agg_tuples) = 1
    /\ \A i \in 1..NumTrain : Len(train_tuples[i]) = 2

\* the scenario of C8: 3 train nodes, one test node with the participant id of
\* the first train node, an aggregation node, the graph built
Scenario(n) ==
    /\ NumTrain = 3
    /\ test_ids = <<train_ids[1]>>
    /\ aggregation_node # <<>>
    /\ num_rounds = n
    /\ PredictReturned

\* the one test operation takes the output of the first train node's last operation
OneTestOnFirstTrainNode ==
    /\ Len(test_tuples[1]) = 1
    /\ test_tuples[1][1].in_local = Last(train_tuples[1]).key

PredictCalled == calls # <<>> /\ Last(calls).op = "predict"

\* C9 as stated: a predict call on a test list with an unmatched test node fails
\* with NoMatchingTrainNode, whatever the strategy state.
C9_AlwaysNoMatchingTrainNode ==
    (PredictCalled /\ Unmatched # {}) => err = "NoMatchingTrainNode"

\* C9 amended: a predict call on a test list with an unmatched test node fails;
\* the error is NoMatchingTrainNode when training has been done or when the first
\* test node of the list is unmatched, and otherwise (no training done, a matched
\* test node first) it is the no-training assertion raised on that first node;
\* the failing node and those after it get no test operation.
C9_UnmatchedTestNodeFails ==
    (PredictCalled /\ Unmatched # {})
    => /\ pc = "aborted"
       /\ err \in {"NoMatchingTrainNode", "AssertionError"}
       /\ err = "NoMatchingTrainNode" <=> (local_states # <<>> \/ 1 \in Unmatched)
       /\ \A j \in Unmatched : test_tuples[j] = <<>>

C9_Witness ==
    /\ PredictCalled
    /\ err = "NoMatchingTrainNode"
    /\ local_states = <<>>
    /\ NumTrain > 0
    /\ Unmatched = {1}

\* C10: when predict has returned after at least one round, every test node's
\* queue holds exactly one test operation, whose input is the output of the last
\* train operation registered on the first train node that has the test node's
\* participant id.
C10_TestOnLatestLocalState ==
    (PredictReturned /\ num_rounds >= 1)
    => \A j \in 1..NumTest :
          /\ Len(test_tuples[j]) = 1
          /\ test_tuples[j][1].in_local = Last(train_tuples[FirstTrainNodeOf(j)]).key
          /\ Last(train_tuples[FirstTrainNodeOf(j)]).org = test_ids[j]
          /\ Last(train_tuples[FirstTrainNodeOf(j)]).round = num_rounds

C10_Witness ==
    /\ PredictReturned
    /\ num_rounds = 2
    /\ train_ids = <<"o1", "o2", "o3">>
    /\ test_ids = <<"o3", "o2">>
    /\ test_tuples[1][1].in_local = 11
    /\ test_tuples[2][1].in_local = 10

\* C11: a perform_round call made with no aggregation node ends the run with the
\* configuration error and changes nothing: no node queue gets an operation, no
\* reference key is used, and the strategy's local and shared states stay as
\* they were; the configuration error has no other cause.
C11_NoAggregationNodeFailsFirst ==
    /\ [][(pc = "rounds" /\ rounds_done < num_rounds /\ aggregation_node = <<>>)
            => /\ err' = "ValueError"
               /\ pc' = "aborted"
               /\ Last(calls').op = "perform_round"
               /\ UNCHANGED graph]_vars
    /\ [](err = "ValueError"
            => /\ aggregation_node = <<>>
               /\ OpsOf(train_tuples) = {}
               /\ agg_tuples = <<>>
               /\ local_states = <<>>
               /\ shared_states = <<>>)

C11_Witness ==
    /\ err = "ValueError"
    /\ NumTrain = 3
    /\ num_rounds = 2
    /\ calls = << [op |-> "perform_round", round_idx |-> 1] >>
    /\ next_key = 1

\* the register_operations calls made on the backend client
RegisterCalls == {k \in 1..Len(client_log) : client_log[k].call = "register_operations"}

\* C12: every register_operations call of a run carries the same authorized ids;
\* a participant id is authorized exactly when it is the id of the aggregation
\* node or of a train node (the id of a test node that is neither is not); and a
\* run that submits has registered every train node, every test node and the
\* aggregation node once each, before the submission.
C12_AuthorizedIdsUniform ==
    /\ \A k \in RegisterCalls : \A o \in Orgs :
          o \in client_log[k].authorized_ids
          <=> (aggregation_node = <<o>> \/ \E i \in 1..NumTrain : train_ids[i] = o)
    /\ \A k, m \in RegisterCalls :
          client_log[k].authorized_ids = client_log[m].authorized_ids
    /\ submissions # <<>>
       => /\ Cardinality(RegisterCalls) = NumTrain + NumTest + 1
          /\ \A i \in 1..NumTrain :
                client_log[i].kind = "train" /\ client_log[i].node = i
          /\ \A j \in 1..NumTest :
                /\ client_log[NumTrain + j].kind = "test"
                /\ client_log[NumTrain + j].node = j
          /\ client_log[NumTrain + NumTest + 1].kind = "aggregation"

C12_Witness ==
    /\ pc = "poll"
    /\ train_ids = <<"o2", "o2", "o3">>
    /\ test_ids = <<"o3">>
    /\ Cardinality(RegisterCalls) = 5
    /\ \A k \in RegisterCalls : client_log[k].authorized_ids = {"o1", "o2", "o3"}

\* avg_shared_states has run on remote_shared_states
RemoteRan == pc = "remote" /\ remote_result # <<>>
\* every shared state of the input has as many layers as the first
EqualLengths ==
    \A k \in 1..Len(remote_shared_states) :
        Len(remote_shared_states[k].parameters_update)
        = Len(remote_shared_states[1].parameters_update)
RECURSIVE SeqSum(_)
SeqSum(q) == IF q = <<>> THEN 0 ELSE Head(q) + SeqSum(Tail(q))

\* C13: run on a non-empty sequence of shared states that all have L layers,
\* avg_shared_states returns an averaged state of L layers; when the sequence
\* holds one shared state, every layer of the result is that state's layer.
C13_LengthKeptSingleIdentity ==
    (RemoteRan /\ remote_shared_states # <<>> /\ EqualLengths)
    => /\ remote_result[1].err = "none"
       /\ remote_result[1].ret # <<>>
       /\ Len(remote_result[1].ret[1].avg_parameters_update)
          = Len(remote_shared_states[1].parameters_update)
       /\ Len(remote_shared_states) = 1
          => \A i \in 1..Len(remote_shared_states[1].parameters_update) :
                remote_result[1].ret[1].avg_parameters_update[i]
                = [num |-> remote_shared_states[1].parameters_update[i], den |-> 1]

C13_Witness ==
    /\ RemoteRan
    /\ remote_shared_states = << [parameters_update |-> <<3, 6, 3>>, n_samples |-> 40] >>
    /\ remote_result[1].ret[1].avg_parameters_update
       = << [num |-> 3, den |-> 1], [num |-> 6, den |-> 1], [num |-> 3, den |-> 1] >>

\* C14: on a non-empty sequence of shared states with equal numbers of layers,
\* layer i of the result is the sum over the states k of delta_k[i] * n_k / N, N
\* being the sum of the sample counts; the result has no field but the averaged
\* layers; and {[3,3,3], 20}, {[6,6,6], 40} give [5,5,5].
C14_SampleWeightedMean ==
    (RemoteRan /\ remote_shared_states # <<>> /\ EqualLengths)
    => /\ remote_result[1].err = "none"
       /\ remote_result[1].ret # <<>>
       /\ DOMAIN remote_result[1].ret[1] = {"avg_parameters_update"}
       /\ DOMAIN remote_result[1].ret[1].avg_parameters_update
          = 1..Len(remote_shared_states[1].parameters_update)
       /\ \A i \in 1..Len(remote_shared_states[1].parameters_update) :
             remote_result[1].ret[1].avg_parameters_update[i].num
               * SeqSum([k \in 1..Len(remote_shared_states) |->
                           remote_shared_states[k].n_samples])
             = remote_result[1].ret[1].avg_parameters_update[i].den
               * SeqSum([k \in 1..Len(remote_shared_states) |->
                           remote_shared_states[k].parameters_update[i]
                           * remote_shared_states[k].n_samples])
       /\ remote_shared_states = << [parameters_update |-> <<3, 3, 3>>, n_samples |-> 20],
                                    [parameters_update |-> <<6, 6, 6>>, n_samples |-> 40] >>
          => remote_result[1].ret[1].avg_parameters_update
             = << [num |-> 5, den |-> 1], [num |-> 5, den |-> 1], [num |-> 5, den |-> 1] >>

C14_Witness ==
    /\ RemoteRan
    /\ remote_shared_states = << [parameters_update |-> <<3, 3, 3>>, n_samples |-> 20],
                                 [parameters_update |-> <<6, 6, 6>>, n_samples |-> 40] >>
    /\ remote_result[1].ret[1].avg_parameters_update[1] = [num |-> 5, den |-> 1]
    /\ remote_result[1].n_all_samples = <<60>>

\* C15: run on the empty sequence, avg_shared_states fails with EmptyInput and
\* returns no averaged state.
C15_EmptyInputFails ==
    (RemoteRan /\ remote_shared_states = <<>>)
    => /\ remote_result[1].err = "EmptyInput"
       /\ remote_result[1].ret = <<>>

C15_Witness ==
    /\ RemoteRan
    /\ remote_shared_states = <<>>
    /\ remote_result[1].err = "EmptyInput"

\* C16: run on a non-empty sequence in which some shared state has a number of
\* layers other than another's, avg_shared_states fails with ShapeMismatch
\* before it has computed the total of the sample counts, and returns no
\* averaged state.
C16_ShapeMismatchFailsFirst ==
    (RemoteRan /\ remote_shared_states # <<>> /\ ~EqualLengths)
    => /\ remote_result[1].err = "ShapeMismatch"
       /\ remote_result[1].n_all_samples = <<>>
       /\ remote_result[1].ret = <<>>

C16_Witness ==
    /\ RemoteRan
    /\ remote_shared_states = << [parameters_update |-> <<3, 3, 3>>, n_samples |-> 20],
                                 [parameters_update |-> <<6>>, n_samples |-> 40] >>
    /\ remote_result[1].err = "ShapeMismatch"

\* all operations of the graph, queue after queue
AllOpsSeq == Concat(train_tuples, 1) \o agg_tuples \o Concat(test_tuples, 1)
NumOps == Len(AllOpsSeq)
\* no two operations of the graph have the same reference key
KeysDistinct ==
    LET ops == AllOpsSeq
    IN \A n \in 1..Len(ops) : \A m \in 1..(n - 1) : ops[m].key # ops[n].key

\* C17: the graph a run has built when predict returns is a function of the
\* train-node list, the test-node list and the round count alone: every train
\* node holds one train operation per round 0..num_rounds, the aggregation node
\* one aggregate per round 1..num_rounds, every test node one test operation,
\* and every state reference an operation consumes is produced by the operation
\* those inputs determine (and by no other: the keys are pairwise distinct); so
\* two runs on the same inputs build graphs of the same counts and edges.
C17_GraphDeterminedByInputs ==
    PredictReturned
    => /\ KeysDistinct
       /\ Len(agg_tuples) = num_rounds
       /\ \A a \in 1..Len(agg_tuples) :
             /\ agg_tuples[a].round = a
             /\ agg_tuples[a].in_local = NoRef
             /\ agg_tuples[a].in_shared = [i \in 1..NumTrain |-> train_tuples[i][a].key]
       /\ \A i \in 1..NumTrain :
             /\ Len(train_tuples[i]) = (IF num_rounds = 0 THEN 0 ELSE num_rounds + 1)
             /\ \A k \in 1..Len(train_tuples[i]) :
                   /\ train_tuples[i][k].node = i
                   /\ train_tuples[i][k].round = k - 1
                   /\ train_tuples[i][k].in_local
                      = (IF k = 1 THEN NoRef ELSE train_tuples[i][k - 1].key)
                   /\ train_tuples[i][k].in_shared
                      = (IF k = 1 THEN <<>> ELSE <<agg_tuples[k - 1].key>>)
       /\ \A j \in 1..NumTest :
             /\ Len(test_tuples[j]) = 1
             /\ test_tuples[j][1].node = j
             /\ test_tuples[j][1].round = num_rounds
             /\ test_tuples[j][1].in_shared = <<>>
             /\ test_tuples[j][1].in_local
                = train_tuples[FirstTrainNodeOf(j)][num_rounds + 1].key

C17_Witness ==
    /\ pc = "returned"
    /\ train_ids = <<"o3", "o2", "o3">>
    /\ test_ids = <<"o3", "o2">>
    /\ num_rounds = 2
    /\ NumOps = 13

\* positions in train node i's queue of its train operations of round r
TrainOpsOfAt(i, r) == {k \in 1..Len(train_tuples[i]) : train_tuples[i][k].round = r}
\* positions in train node i's queue of the operations taking `ref` as shared state
ConsumersOn(i, ref) ==
    {k \in 1..Len(train_tuples[i]) : train_tuples[i][k].in_shared = <<ref>>}

\* C18: the aggregate operations are on the aggregation node, one per steady
\* round in round order (as many as rounds were completed); the inputs of the
\* aggregate of round r are the shared states of the train operations of round
\* r - 1, one per train node in train-list order; and its output reference is
\* new: no other operation of the graph produces it.
C18_OneAggregatePerRound ==
    /\ \A a \in 1..Len(agg_tuples) :
          /\ agg_tuples[a].round = a
          /\ agg_tuples[a].org = aggregation_node[1]
          /\ Len(agg_tuples[a].in_shared) = NumTrain
          /\ \A i \in 1..NumTrain :
                /\ Cardinality(TrainOpsOfAt(i, a - 1)) = 1
                /\ \A k \in TrainOpsOfAt(i, a - 1) :
                      agg_tuples[a].in_shared[i] = train_tuples[i][k].key
                /\ \A k \in 1..Len(train_tuples[i]) :
                      train_tuples[i][k].key # agg_tuples[a].key
          /\ \A b \in 1..Len(agg_tuples) :
                b # a => agg_tuples[b].key # agg_tuples[a].key
          /\ \A j \in 1..NumTest : \A k \in 1..Len(test_tuples[j]) :
                test_tuples[j][k].key # agg_tuples[a].key
    /\ Len(agg_tuples) <= rounds_done
    /\ (pc # "aborted" \/ Len(calls) > rounds_done) => Len(agg_tuples) = rounds_done

C18_Witness ==
    /\ rounds_done = 2
    /\ NumTrain = 3
    /\ Len(agg_tuples) = 2
    /\ agg_tuples[2].in_shared = <<5, 6, 7>>
    /\ agg_tuples[2].key = 8

\* C19: a train operation has no shared-state input exactly when it is a
\* cold-start operation (round 0); a train operation of a steady round takes one
\* shared-state input, the output of the one aggregate operation of its round;
\* and the output of every aggregate operation is produced by that operation
\* only and consumed by exactly one train operation of every train node, of the
\* aggregate's round.
C19_AggregateBroadcast ==
    /\ \A i \in 1..NumTrain : \A k \in 1..Len(train_tuples[i]) :
          /\ train_tuples[i][k].in_shared = <<>> <=> train_tuples[i][k].round = 0
          /\ train_tuples[i][k].round >= 1
             => /\ Cardinality(AggOpsAtRound(train_tuples[i][k].round)) = 1
                /\ \A a \in AggOpsAtRound(train_tuples[i][k].round) :
                      train_tuples[i][k].in_shared = <<agg_tuples[a].key>>
    /\ \A a \in 1..Len(agg_tuples) :
          /\ \A b \in 1..Len(agg_tuples) :
                agg_tuples[b].key = agg_tuples[a].key => b = a
          /\ \A i \in 1..NumTrain :
                /\ Cardinality(ConsumersOn(i, agg_tuples[a].key)) = 1
                /\ \A k \in ConsumersOn(i, agg_tuples[a].key) :
                      train_tuples[i][k].round = agg_tuples[a].round

C19_Witness ==
    /\ rounds_done = 2
    /\ err = "none"
    /\ NumTrain = 3
    /\ \A i \in 1..NumTrain :
          /\ ConsumersOn(i, agg_tuples[1].key) = {2}
          /\ ConsumersOn(i, agg_tuples[2].key) = {3}

\* C20: a train operation that has a local-state input takes the output of an
\* earlier train operation of its own train node (hence of its own
\* participant), the one of the round before; no train operation of another
\* node produced that reference; only cold-start operations have no local-state
\* input; and the strategy never attempts to pass a local state across nodes.
C20_LocalStateStaysOnNode ==
    /\ \A i \in 1..NumTrain : \A k \in 1..Len(train_tuples[i]) :
          /\ train_tuples[i][k].in_local = NoRef <=> train_tuples[i][k].round = 0
          /\ train_tuples[i][k].in_local # NoRef
             => /\ \E m \in 1..(k - 1) :
                      /\ train_tuples[i][m].key = train_tuples[i][k].in_local
                      /\ train_tuples[i][m].org = train_tuples[i][k].org
                      /\ train_tuples[i][m].round = train_tuples[i][k].round - 1
                /\ \A n \in 1..NumTrain : \A m \in 1..Len(train_tuples[n]) :
                      train_tuples[n][m].key = train_tuples[i][k].in_local => n = i
    /\ err # "ScopeViolation"

C20_Witness ==
    /\ rounds_done = 2
    /\ err = "none"
    /\ train_ids = <<"o2", "o1", "o2">>
    /\ train_tuples[3][3].in_local = train_tuples[3][2].key
    /\ train_tuples[3][2].in_local = train_tuples[3][1].key
    /\ train_tuples[1][3].in_local = train_tuples[1][2].key

\* the step is a perform_round call of the driver
PerformRoundStep ==
    Len(calls') = Len(calls) + 1 /\ Last(calls').op = "perform_round"
\* the step is the predict call of the driver
PredictStep ==
    Len(calls') = Len(calls) + 1 /\ Last(calls').op = "predict"

\* C21 as stated: every perform_round call that completes has replaced the
\* strategy state exactly once, the first call included, and a call that fails
\* has replaced it zero times.
C21_OneReplacementPerCall ==
    [][PerformRoundStep
        => state_writes' = (IF err' = "none" THEN 1 ELSE 0)]_vars

\* C21 amended: each local-update pass replaces both collections once, as a
\* whole (every entry is a reference registered by the call); a completed call
\* of a later round has run one pass, the completed first call two (round 0 and
\* round 1); a call that raises on the missing aggregation node has replaced
\* nothing, and a first call that raises at its aggregation step has replaced
\* the state once, in its cold-start pass.
C21_OneReplacementPerPass ==
    [][PerformRoundStep
        => /\ err' = "none"
              => /\ state_writes' = (IF Last(calls').round_idx = 1 THEN 2 ELSE 1)
                 /\ local_states' # <<>> /\ shared_states' # <<>>
                 /\ Len(local_states'[1]) = NumTrain
                 /\ Len(shared_states'[1]) = NumTrain
                 /\ \A i \in 1..NumTrain :
                       /\ local_states'[1][i] >= next_key
                       /\ shared_states'[1][i] >= next_key
                       /\ local_states'[1][i] = Last(train_tuples'[i]).key
                       /\ shared_states'[1][i] = Last(train_tuples'[i]).key
           /\ err' = "ValueError"
              => /\ state_writes' = 0
                 /\ local_states' = local_states
                 /\ shared_states' = shared_states
           /\ err' \notin {"none", "ValueError"}
              => /\ err' = "EmptyAggregationInput"
                 /\ Last(calls').round_idx = 1
                 /\ state_writes' = 1]_vars

C21_Witness ==
    /\ rounds_done = 2
    /\ err = "none"
    /\ NumTrain = 3
    /\ state_writes = 1
    /\ local_states = << <<9, 10, 11>> >>

\* some perform_round call of the run has completed
RoundCompleted ==
    rounds_done >= 1 /\ ~(pc = "aborted" /\ Last(calls).op = "perform_round")

\* C22: the strategy holds no local states and no shared states until the first
\* perform_round call has started (the two holders are absent together), and
\* once a perform_round call has completed it holds both, each a non-empty list.
C22_StateAbsentThenPresent ==
    /\ rounds_done = 0 => local_states = <<>> /\ shared_states = <<>>
    /\ local_states = <<>> <=> shared_states = <<>>
    /\ RoundCompleted
       => /\ local_states # <<>> /\ local_states[1] # <<>>
          /\ shared_states # <<>> /\ shared_states[1] # <<>>

C22_Witness ==
    /\ rounds_done = 1
    /\ pc = "rounds"
    /\ local_states = << <<4, 5>> >>
    /\ shared_states = << <<4, 5>> >>

\* the state references operation o takes as inputs
InputsOf(o) ==
    {o.in_shared[n] : n \in 1..Len(o.in_shared)}
    \cup (IF o.in_local = NoRef THEN {} ELSE {o.in_local})

\* C23: the operations of the graph carry the keys 1, 2, ... in the order of
\* their registration, one key each, and every state reference an operation
\* takes as input is the key of an operation of the graph registered before it;
\* so no operation depends on an output that does not exist yet and the
\* dependency relation has no cycle.
C23_NoForwardReference ==
    LET ops == AllOpsSeq
    IN /\ Len(ops) = next_key - 1
       /\ {ops[n].key : n \in 1..Len(ops)} = 1..(next_key - 1)
       /\ \A n \in 1..Len(ops) : \A ref \in InputsOf(ops[n]) :
             ref >= 1 /\ ref < ops[n].key

C23_Witness ==
    /\ pc = "register"
    /\ num_rounds = 2
    /\ NumTrain = 3
    /\ NumTest = 2
    /\ next_key = 14
    /\ InputsOf(agg_tuples[2]) = {5, 6, 7}
    /\ InputsOf(train_tuples[3][3]) = {7, 8}

\* C24: operations are registered in an order fixed by the node lists: along
\* every queue in increasing key order; in every pass over the train nodes in
\* train-list order; the aggregate of a round before every train operation of
\* that round and after those of the round before; the test operations in
\* test-list order, after all train operations. The submitted train list holds
\* the train queues one after the other in train-list order, each in
\* registration order, and the submitted test list the test queues likewise.
C24_EmissionOrder ==
    /\ \A i \in 1..NumTrain : \A k \in 2..Len(train_tuples[i]) :
          train_tuples[i][k - 1].key < train_tuples[i][k].key
    /\ \A i \in 2..NumTrain : \A k \in 1..Len(train_tuples[i]) :
          /\ k <= Len(train_tuples[i - 1])
          /\ train_tuples[i - 1][k].key < train_tuples[i][k].key
    /\ \A a \in 1..Len(agg_tuples) : \A i \in 1..NumTrain :
          /\ train_tuples[i][a].key < agg_tuples[a].key
          /\ Len(train_tuples[i]) > a => agg_tuples[a].key < train_tuples[i][a + 1].key
    /\ \A j \in 1..NumTest : \A k \in 1..Len(test_tuples[j]) :
          /\ \A i \in 1..NumTrain : Last(train_tuples[i]).key < test_tuples[j][k].key
          /\ j > 1 => /\ test_tuples[j - 1] # <<>>
                      /\ Last(test_tuples[j - 1]).key < test_tuples[j][k].key
    /\ \A n \in 1..Len(submissions) :
          /\ Len(submissions[n].composite_traintuples)
             = NumTrain * (IF NumTrain = 0 THEN 0 ELSE Len(train_tuples[1]))
          /\ \A i \in 1..NumTrain : \A k \in 1..Len(train_tuples[i]) :
                submissions[n].composite_traintuples[(i - 1) * Len(train_tuples[1]) + k]
                = train_tuples[i][k]
          /\ Len(submissions[n].testtuples) = NumTest
          /\ \A j \in 1..NumTest : submissions[n].testtuples[j] = test_tuples[j][1]

C24_Witness ==
    /\ pc = "poll"
    /\ num_rounds = 2
    /\ train_ids = <<"o2", "o3">>
    /\ test_ids = <<"o3", "o2">>
    /\ Len(submissions[1].composite_traintuples) = 6
    /\ submissions[1].composite_traintuples[4].key = 2
    /\ submissions[1].testtuples[1].in_local = 8

\* the round index of every train and aggregate operation a step registers is in S
NewOpsCarry(S) ==
    /\ \A i \in 1..NumTrain : \A k \in 1..Len(train_tuples'[i]) :
          k > Len(train_tuples[i]) => train_tuples'[i][k].round \in S
    /\ \A a \in 1..Len(agg_tuples') :
          a > Len(agg_tuples) => agg_tuples'[a].round \in S

BackendTouched ==
    \/ client_log # <<>>
    \/ submissions # <<>>
    \/ cp_status # "none"
    \/ backend_error # "none"
    \/ last_status # "none"

\* C26: a perform_round or predict call leaves the client log, the submissions
\* and the backend as they were (it changes only node queues and strategy
\* state); the client is first used only when every perform_round call and
\* predict have returned, no strategy call follows it, and that first use is
\* the registrations of the node operations followed by the one compute-plan
\* submission.
C26_NoBackendIOWhileBuilding ==
    /\ [][PerformRoundStep \/ PredictStep
            => UNCHANGED <<client_log, submissions, cp_status, backend_error, last_status,
                           config, remote>>]_vars
    /\ [](BackendTouched
            => /\ PredictReturned
               /\ Last(calls).op = "predict"
               /\ err = "none"
               /\ rounds_done = num_rounds
               /\ Cardinality(CallsOf("perform_round")) = num_rounds)
    /\ [][BackendTouched' => calls' = calls /\ UNCHANGED graph]_vars
    /\ [](client_log # <<>>
            => /\ Last(client_log).call = "add_compute_plan"
               /\ \A k \in 1..(Len(client_log) - 1) :
                     client_log[k].call = "register_operations"
               /\ Len(submissions) = 1)

C26_Witness ==
    /\ pc = "poll"
    /\ num_rounds = 2
    /\ NumTrain = 2
    /\ NumTest = 1
    /\ Len(calls) = 3
    /\ Len(client_log) = 5
    /\ Len(submissions) = 1
    /\ cp_status = "doing"

\* C27: after k >= 1 completed perform_round calls (round indices 1..k) on a
\* fresh strategy, every train node's queue holds k+1 train operations, tagged
\* 0, 1, .., k in this order, and the aggregation node's queue holds k
\* aggregate operations, tagged 1, .., k; the first call registers 2N train
\* operations and 1 aggregate operation, N the number of train nodes.
C27_OperationsPerRound ==
    /\ [](RoundCompleted
            => /\ \A i \in 1..NumTrain :
                     /\ Len(train_tuples[i]) = rounds_done + 1
                     /\ \A k \in 1..Len(train_tuples[i]) :
                           /\ train_tuples[i][k].round = k - 1
                           /\ train_tuples[i][k].kind = "train"
               /\ Len(agg_tuples) = rounds_done
               /\ \A a \in 1..Len(agg_tuples) :
                     /\ agg_tuples[a].round = a
                     /\ agg_tuples[a].kind = "aggregate")
    /\ [][PerformRoundStep /\ Last(calls').round_idx = 1 /\ err' = "none"
            => /\ SeqSum([i \in 1..NumTrain |-> Len(train_tuples'[i])]) = 2 * NumTrain
               /\ SeqSum([i \in 1..NumTrain |-> Len(train_tuples[i])]) = 0
               /\ Len(agg_tuples') = 1
               /\ agg_tuples = <<>>
               /\ next_key' = next_key + 2 * NumTrain + 1]_vars

C27_Witness ==
    /\ pc = "rounds"
    /\ rounds_done = 2
    /\ err = "none"
    /\ NumTrain = 3
    /\ Len(train_tuples[3]) = 3
    /\ Len(agg_tuples) = 2
    /\ next_key = 12

\* C28: whenever the strategy holds state, its list of local states and its
\* list of shared states both have one entry per train node of the list the
\* passes were given, and entry i of each is the output of the train operation
\* the last pass registered on train node i (the last of that node's queue);
\* the state the cold-start pass and every earlier pass left is seen in what
\* the next aggregate and the next pass were given: the aggregate of round a
\* takes one shared state per train node, entry i being the output of node i's
\* operation of the pass before, and node i's next operation takes that
\* operation's output as its local state.
C28_StateListsFollowNodes ==
    [](/\ local_states # <<>>
          => /\ Len(local_states[1]) = NumTrain
             /\ shared_states # <<>>
             /\ Len(shared_states[1]) = NumTrain
             /\ \A i \in 1..NumTrain :
                   /\ train_tuples[i] # <<>>
                   /\ Last(train_tuples[i]).node = i
                   /\ Last(train_tuples[i]).org = train_ids[i]
                   /\ local_states[1][i] = Last(train_tuples[i]).key
                   /\ shared_states[1][i] = Last(train_tuples[i]).key
       /\ \A a \in 1..Len(agg_tuples) :
             /\ Len(agg_tuples[a].in_shared) = NumTrain
             /\ \A i \in 1..NumTrain :
                   /\ Len(train_tuples[i]) >= a
                   /\ agg_tuples[a].in_shared[i] = train_tuples[i][a].key
                   /\ Len(train_tuples[i]) > a
                      => train_tuples[i][a + 1].in_local = train_tuples[i][a].key)

C28_Witness ==
    /\ pc = "rounds"
    /\ rounds_done = 2
    /\ train_ids = <<"o3", "o1", "o3">>
    /\ local_states = << <<9, 10, 11>> >>
    /\ shared_states = << <<9, 10, 11>> >>
    /\ Last(train_tuples[2]).key = 10
    /\ agg_tuples[1].in_shared = <<1, 2, 3>>

\* C29: a perform_round call with round_idx == 1 on a strategy whose local or
\* shared state is already set raises AssertionError, registers no train and
\* no aggregate operation and leaves the strategy state as it was; so no train
\* node ever gets a second cold-start (round 0) operation.
C29_ColdStartOnce ==
    /\ [][/\ PerformRoundStep
          /\ Last(calls').round_idx = 1
          /\ (local_states # <<>> \/ shared_states # <<>>)
          => /\ err' = "AssertionError"
             /\ state_writes' = 0
             /\ UNCHANGED <<local_states, shared_states, train_tuples, agg_tuples,
                            test_tuples, next_key>>]_vars
    /\ [](\A i \in 1..NumTrain :
             \A k \in 1..Len(train_tuples[i]) :
                (train_tuples[i][k].round = 0 \/ train_tuples[i][k].in_shared = <<>>) => k = 1)

C29_Witness ==
    /\ err = "AssertionError"
    /\ pc = "aborted"
    /\ Len(calls) = 3
    /\ calls[1].round_idx = 1
    /\ calls[2].round_idx = 2
    /\ calls[3].round_idx = 1
    /\ NumTrain = 2
    /\ local_states = << <<7, 8>> >>
    /\ shared_states = << <<7, 8>> >>
    /\ Len(agg_tuples) = 2
    /\ next_key = 9

\* C30: a predict call leaves the strategy's local states and shared states and
\* the train and aggregate queues as they were; all it does to the nodes is
\* to append test operations to test-node queues, at most one per test node.
C30_PredictFrame ==
    [][PredictStep
        => /\ UNCHANGED <<local_states, shared_states, train_tuples, agg_tuples>>
           /\ state_writes' = 0
           /\ DOMAIN test_tuples' = DOMAIN test_tuples
           /\ \A j \in 1..NumTest :
                 \/ test_tuples'[j] = test_tuples[j]
                 \/ /\ Len(test_tuples'[j]) = Len(test_tuples[j]) + 1
                    /\ SubSeq(test_tuples'[j], 1, Len(test_tuples[j])) = test_tuples[j]
                    /\ Last(test_tuples'[j]).kind = "test"
           /\ next_key' - next_key
                = SeqSum([j \in 1..NumTest |-> Len(test_tuples'[j]) - Len(test_tuples[j])])]_vars

C30_Witness ==
    /\ pc = "register"
    /\ Last(calls).op = "predict"
    /\ rounds_done = 1
    /\ train_ids = <<"o1", "o2">>
    /\ test_ids = <<"o2", "o1">>
    /\ local_states = << <<4, 5>> >>
    /\ shared_states = << <<4, 5>> >>
    /\ Len(test_tuples[1]) = 1
    /\ Len(test_tuples[2]) = 1
    /\ next_key = 8

\* test nodes on which a predict call made now fails: all of them when no
\* training has been done, else those with no matching train node
FailingTestNodes == IF local_states = <<>> THEN 1..NumTest ELSE Unmatched

\* C31: a predict call goes through the test nodes in list order and stops at
\* the first one that fails, with NoMatchingTrainNode if that node matches no
\* train node and else with the no-training assertion: every test node before
\* it has got one test operation, which stays in its queue, these operations
\* were registered in list order, and the failing node and every later node
\* get none; when no test node fails every test node gets one.
C31_PredictStopsAtFirstFailure ==
    [][PredictStep
        => IF FailingTestNodes = {}
           THEN /\ err' = "none"
                /\ \A j \in 1..NumTest : Len(test_tuples'[j]) = 1
           ELSE LET f == CHOOSE j \in FailingTestNodes :
                            \A k \in FailingTestNodes : j <= k
                IN /\ err' = (IF f \in Unmatched THEN "NoMatchingTrainNode"
                              ELSE "AssertionError")
                   /\ pc' = "aborted"
                   /\ \A j \in 1..(f - 1) :
                         /\ Len(test_tuples'[j]) = 1
                         /\ test_tuples'[j][1].kind = "test"
                         /\ test_tuples'[j][1].node = j
                         /\ test_tuples'[j][1].key = next_key + j - 1
                   /\ \A j \in f..NumTest : test_tuples'[j] = <<>>
                   /\ next_key' = next_key + f - 1]_vars

C31_Witness ==
    /\ pc = "aborted"
    /\ Last(calls).op = "predict"
    /\ err = "NoMatchingTrainNode"
    /\ rounds_done = 1
    /\ train_ids = <<"o1">>
    /\ test_ids = <<"o1", "o2">>
    /\ Len(test_tuples[1]) = 1
    /\ test_tuples[1][1].in_local = 3
    /\ test_tuples[2] = <<>>

\* train nodes, as list positions, that have the participant id of test node j
SharingTrainNodes(j) == {i \in 1..NumTrain : train_ids[i] = test_ids[j]}

\* C32: a predict call made after training, on test nodes that each match at
\* least one train node, does not fail however many train nodes share a test
\* node's participant id; the test operation of a test node whose id several
\* train nodes share takes the local state stored at the list position of the
\* first of them, which is the output of that node's last train operation, and
\* the output of no later one of them.
C32_FirstOfSeveralMatches ==
    /\ [][(PredictStep /\ local_states # <<>> /\ Unmatched = {})
            => /\ err' = "none"
               /\ pc' = "register"
               /\ \A j \in 1..NumTest :
                     Cardinality(SharingTrainNodes(j)) > 1
                     => /\ Len(test_tuples'[j]) = 1
                        /\ \E i \in SharingTrainNodes(j) :
                              /\ \A k \in SharingTrainNodes(j) : i <= k
                              /\ test_tuples'[j][1].in_local = local_states[1][i]]_vars
    /\ [](PredictReturned
            => \A j \in 1..NumTest :
                  Cardinality(SharingTrainNodes(j)) > 1
                  => LET first == CHOOSE i \in SharingTrainNodes(j) :
                                     \A k \in SharingTrainNodes(j) : i <= k
                     IN /\ test_tuples[j][1].in_local = Last(train_tuples[first]).key
                        /\ \A k \in SharingTrainNodes(j) \ {first} :
                              test_tuples[j][1].in_local # Last(train_tuples[k]).key)

C32_Witness ==
    /\ pc = "register"
    /\ Last(calls).op = "predict"
    /\ rounds_done = 1
    /\ train_ids = <<"o2", "o1", "o2">>
    /\ test_ids = <<"o2">>
    /\ local_states = << <<5, 6, 7>> >>
    /\ test_tuples[1][1].in_local = 5

====
